---- MODULE Spec2Model ----
\* Verification model of src/graphics/geometry/hex.rs: the hex TileGrid
\* (screen <-> tile projection, neighbour stepping, direction, beyond, linear
\* indices) and the bounded A* PathFinder.
EXTENDS Integers, Sequences, FiniteSets, TLC

VARIABLES
    screen_pos,   \* TileGrid.screen_pos
    pos,          \* TileGrid.pos
    width,        \* TileGrid.width
    height,       \* TileGrid.height
    op,           \* name of the last TileGrid query that ran
    arg,          \* its arguments
    ret,          \* its results
    steps,        \* PathFinder.steps
    closed,       \* PathFinder.closed (set of linear indices whose bit is set)
    max_depth,    \* PathFinder.max_depth
    tile_state,   \* the tile_state callback f handed to find (a pure function)
    pc,           \* position inside find / beyond: "idle", "loop", "done"
    call,         \* arguments of the running call
    result,       \* value returned by the last call
    bey           \* locals of the running beyond call

vars == <<screen_pos, pos, width, height, op, arg, ret,
          steps, closed, max_depth, tile_state, pc, call, result, bey>>

gridVars == <<screen_pos, pos, width, height>>
queryVars == <<op, arg, ret>>
finderVars == <<steps, closed, max_depth, tile_state>>
callVars == <<pc, call, result, bey>>

----------------------------------------------------------------------------
\* Bounds of the model.

MaxWidth == 3        \* widest grid explored
MaxHeight == 2       \* tallest grid explored
MaxPos == 1          \* |pos.x|, |pos.y| handed to set_pos
MaxScreen == 1       \* |screen_pos.x|, |screen_pos.y| handed to set_screen_pos
MaxDist == 10        \* longest straight walk handed to direction
MaxDepthSmall == 2   \* max_depth values 0, 1, MaxDepthSmall and width*height
MaxBeyond == 3       \* largest distance handed to beyond
MaxBlocked == 2      \* most tiles a tile_state function blocks
MaxPixel == 4        \* |s.x|, s.y of the pixels handed to from_screen

----------------------------------------------------------------------------
\* Integer arithmetic of the source language (i32): `/` truncates toward zero
\* and `%` takes the sign of the dividend.

Abs(a) == IF a < 0 THEN -a ELSE a

Signum(a) == IF a > 0 THEN 1 ELSE IF a < 0 THEN -1 ELSE 0

Quot(a, b) == IF a >= 0 THEN a \div b ELSE -((-a) \div b)

Rem(a, b) == a - b * Quot(a, b)

Min(a, b) == IF a < b THEN a ELSE b

Point(x, y) == [x |-> x, y |-> y]

PAdd(p, q) == Point(p.x + q.x, p.y + q.y)

PSub(p, q) == Point(p.x - q.x, p.y - q.y)

----------------------------------------------------------------------------
\* Direction and the pixel constants.

TILE_WIDTH == 32
TILE_HEIGHT == 16
TILE_INNER_HEIGHT == 8

DirectionValues == <<"NE", "E", "SE", "SW", "W", "NW">>

Direction == {DirectionValues[i] : i \in 1..6}

Ordinal(d) == CHOOSE i \in 0..5 : DirectionValues[i + 1] = d

screen_offset(direction) ==
    LET H == TILE_INNER_HEIGHT + Quot(TILE_HEIGHT - TILE_INNER_HEIGHT, 2)
    IN CASE direction = "NE" -> Point(TILE_HEIGHT, -H)
         [] direction = "E"  -> Point(TILE_WIDTH, 0)
         [] direction = "SE" -> Point(TILE_HEIGHT, H)
         [] direction = "SW" -> Point(-TILE_HEIGHT, H)
         [] direction = "W"  -> Point(-TILE_WIDTH, 0)
         [] direction = "NW" -> Point(-TILE_HEIGHT, -H)

tile_hit_test(p) ==
    LET line_test(x1, y1, x2, y2) == (p.x - x1) * (y2 - y1) - (p.y - y1) * (x2 - x1)
        IH == Quot(TILE_INNER_HEIGHT, 2)
        HW == Quot(TILE_WIDTH, 2)
    IN IF line_test(0, IH, HW, 0) > 0 THEN "TopLeft"
       ELSE IF line_test(HW, 0, TILE_WIDTH, IH) > 0 THEN "TopRight"
       ELSE IF line_test(0, TILE_HEIGHT - IH, HW, TILE_HEIGHT) <= 0 THEN "BottomLeft"
       ELSE IF line_test(HW, TILE_HEIGHT, TILE_WIDTH, TILE_HEIGHT - IH) <= 0 THEN "BottomRight"
       ELSE "Inside"

----------------------------------------------------------------------------
\* TileGrid: pure queries, parameterised by the grid fields they read.

is_in_bounds(w, h, p) == p.x >= 0 /\ p.x < w /\ p.y >= 0 /\ p.y < h

\* from_screen with plain truncating division in place of the negative-aware
\* floor division.
from_screen_truncating(sp, gp, p) ==
    LET abs_screen_y == p.y - sp.y
        tile_y0 == Quot(abs_screen_y, 12)
        screen_x_in_tile_hrow == p.x - sp.x - 16 * tile_y0
        screen_y_in_tile == abs_screen_y - 12 * tile_y0
        tile_hx == Quot(screen_x_in_tile_hrow, 64)
        sx0 == screen_x_in_tile_hrow - tile_hx * 64
        screen_x_in_tile == IF sx0 >= 32 THEN sx0 - 32 ELSE sx0
        tile_x == 2 * tile_hx + (IF sx0 >= 32 THEN 1 ELSE 0) + gp.x
        tile_y == tile_y0 + tile_hx + gp.y
        hit == tile_hit_test(Point(screen_x_in_tile, screen_y_in_tile))
    IN CASE hit = "TopRight" ->
              Point(tile_x + 1, IF Rem(tile_x + 1, 2) = 1 THEN tile_y - 1 ELSE tile_y)
         [] hit = "TopLeft" -> Point(tile_x, tile_y - 1)
         [] hit = "BottomLeft" ->
              Point(tile_x - 1, IF Rem(tile_x - 1, 2) = 0 THEN tile_y + 1 ELSE tile_y)
         [] hit = "BottomRight" -> Point(tile_x, tile_y + 1)
         [] hit = "Inside" -> Point(tile_x, tile_y)

from_screen(sp, gp, p) ==
    LET abs_screen_y == p.y - sp.y
        tile_y0 == IF abs_screen_y >= 0 THEN Quot(abs_screen_y, 12)
                   ELSE Quot(abs_screen_y + 1, 12) - 1
        screen_x_in_tile_hrow == p.x - sp.x - 16 * tile_y0
        screen_y_in_tile == abs_screen_y - 12 * tile_y0
        tile_hx == IF screen_x_in_tile_hrow >= 0 THEN Quot(screen_x_in_tile_hrow, 64)
                   ELSE Quot(screen_x_in_tile_hrow + 1, 64) - 1
        sx0 == screen_x_in_tile_hrow - tile_hx * 64
        screen_x_in_tile == IF sx0 >= 32 THEN sx0 - 32 ELSE sx0
        tile_x == 2 * tile_hx + (IF sx0 >= 32 THEN 1 ELSE 0) + gp.x
        tile_y == tile_y0 + tile_hx + gp.y
        hit == tile_hit_test(Point(screen_x_in_tile, screen_y_in_tile))
    IN CASE hit = "TopRight" ->
              Point(tile_x + 1, IF Rem(tile_x + 1, 2) = 1 THEN tile_y - 1 ELSE tile_y)
         [] hit = "TopLeft" -> Point(tile_x, tile_y - 1)
         [] hit = "BottomLeft" ->
              Point(tile_x - 1, IF Rem(tile_x - 1, 2) = 0 THEN tile_y + 1 ELSE tile_y)
         [] hit = "BottomRight" -> Point(tile_x, tile_y + 1)
         [] hit = "Inside" -> Point(tile_x, tile_y)

to_screen(sp, gp, p) ==
    LET dx == Quot(p.x - gp.x, 2)
        odd == IF Rem(p.x, 2) # 0
               THEN (IF p.x <= gp.x THEN Point(-16, 12) ELSE Point(32, 0))
               ELSE Point(0, 0)
        dy == p.y - gp.y
    IN Point(sp.x + 48 * dx + odd.x + 16 * dy,
             sp.y - 12 * dx + odd.y + 12 * dy)

\* Advance per direction for an even (row 1) and an odd (row 2) column.
ADVANCE_MAP ==
    << <<Point(1, -1), Point(1, 0), Point(0, 1), Point(-1, 0), Point(-1, -1), Point(0, -1)>>,
       <<Point(1, 0), Point(1, 1), Point(0, 1), Point(-1, 1), Point(-1, 0), Point(0, -1)>> >>

RECURSIVE go0(_, _, _, _, _, _)
go0(w, h, p, direction, distance, clip) ==
    IF distance = 0 THEN p
    ELSE LET advance == ADVANCE_MAP[(p.x % 2) + 1][Ordinal(direction) + 1]
             next == PAdd(p, advance)
         IN IF clip /\ ~is_in_bounds(w, h, next) THEN p
            ELSE go0(w, h, next, direction, distance - 1, clip)

go_unbounded(p, direction, distance) == go0(0, 0, p, direction, distance, FALSE)

\* go: None is modelled as the empty sequence, Some(p) as <<p>>.
go(w, h, p, direction, distance) ==
    LET q == go0(w, h, p, direction, distance, FALSE)
    IN IF is_in_bounds(w, h, q) THEN <<q>> ELSE <<>>

\* Thresholds of `90 - (atan2(-d.y, d.x) * 180 / PI) as i32` at the 60-degree
\* sector borders, as rationals num/den: tan 31, tan 30, tan 29 and tan 1
\* degrees.  Exact for |d.x|, |d.y| <= 1200.
Tan31Num == 1117
Tan31Den == 1859
Tan30Num == 780
Tan30Den == 1351
Tan29Num == 1087
Tan29Den == 1961
Tan1Num == 31
Tan1Den == 1776

\* Ordinal of min((90 - trunc(atan2(Y, X) in degrees) + 360) % 360 / 60, 5), X # 0.
AngleSector(X, Y) ==
    IF X > 0
    THEN IF Y * Tan31Den >= X * Tan31Num THEN 0
         ELSE IF Y * Tan30Den > -X * Tan30Num THEN 1
         ELSE 2
    ELSE IF Y >= 0
         THEN IF Y * Tan29Den <= -X * Tan29Num THEN 4
              ELSE IF -X * Tan1Den >= Y * Tan1Num THEN 5
              ELSE 0
         ELSE IF -Y * Tan30Den <= -X * Tan30Num THEN 4
              ELSE 3

direction(sp, gp, from, to) ==
    LET d == PSub(to_screen(sp, gp, to), to_screen(sp, gp, from))
    IN IF d.x # 0 THEN DirectionValues[AngleSector(d.x, -d.y) + 1]
       ELSE IF d.y < 0 THEN "NE"
       ELSE "SE"

\* from_linear with quotient and remainder swapped.
from_linear_swapped(w, num) == Point(Quot(num, w), Rem(num, w))

from_linear(w, num) == Point(Rem(num, w), Quot(num, w))

\* Option<i32>: None is <<>>, Some(n) is <<n>>.
to_linear(w, h, p) == IF is_in_bounds(w, h, p) THEN <<w * p.y + p.x>> ELSE <<>>

to_linear_inv(w, h, p) ==
    IF is_in_bounds(w, h, p) THEN <<w * p.y + (w - 1 - p.x)>> ELSE <<>>

from_linear_inv(w, num) == Point(w - 1 - Rem(num, w), Quot(num, w))

----------------------------------------------------------------------------
\* Input sets.

PosValues == {Point(x, y) : x \in -MaxPos..MaxPos, y \in 0..MaxPos}

ScreenValues == {Point(x, y) : x \in -MaxScreen..0, y \in 0..MaxScreen}

\* Tiles of a w x h grid.
InBounds(w, h) == {Point(x, y) : x \in 0..(w - 1), y \in 0..(h - 1)}

\* The same tiles with a ring of out-of-bounds tiles around them.
Tiles(w, h) == {Point(x, y) : x \in -1..w, y \in -1..h}

\* Pixel offsets added to to_screen(tile) before from_screen: the box corner
\* and the top vertex of the hexagon (test::from_screen2).
PixelOffsets == {Point(0, 0), Point(16, 0)}

NoValue == [tag |-> "none"]

\* A PathFinder that is not part of the run.
FinderUnused ==
    /\ steps = <<>>
    /\ closed = {}
    /\ max_depth = 0
    /\ tile_state = NoValue
    /\ pc = "idle"
    /\ call = NoValue
    /\ result = NoValue
    /\ bey = NoValue

----------------------------------------------------------------------------
\* TileGrid operations.

\* TileGrid { width, height, ..Default::default() }
GridDefault(w, h) ==
    /\ screen_pos = Point(0, 0)
    /\ pos = Point(0, 0)
    /\ width = w
    /\ height = h
    /\ op = "new"
    /\ arg = NoValue
    /\ ret = NoValue

set_screen_pos(p) ==
    /\ screen_pos' = p
    /\ op' = "set_screen_pos"
    /\ arg' = [p |-> p]
    /\ ret' = NoValue
    /\ UNCHANGED <<pos, width, height, finderVars, callVars>>

set_pos(p) ==
    /\ pos' = p
    /\ op' = "set_pos"
    /\ arg' = [p |-> p]
    /\ ret' = NoValue
    /\ UNCHANGED <<screen_pos, width, height, finderVars, callVars>>

Query(name, a, r) ==
    /\ op' = name
    /\ arg' = a
    /\ ret' = r
    /\ UNCHANGED <<gridVars, finderVars, callVars>>

ToScreen(p) == Query("to_screen", [p |-> p], to_screen(screen_pos, pos, p))

\* from_screen of the pixel `off` away from where `tile` is drawn.
FromScreen(tile, off) ==
    LET p == PAdd(to_screen(screen_pos, pos, tile), off)
    IN Query("from_screen", [tile |-> tile, off |-> off, p |-> p],
             from_screen(screen_pos, pos, p))

GoUnbounded(p, d, distance) ==
    Query("go_unbounded", [p |-> p, direction |-> d, distance |-> distance],
          go_unbounded(p, d, distance))

\* direction(from, go_unbounded(from, d, k)), as test::direction calls it.
DirectionOf(from, d, k) ==
    LET to == go_unbounded(from, d, k)
    IN Query("direction", [from |-> from, to |-> to, d |-> d, k |-> k],
             direction(screen_pos, pos, from, to))

FromLinear(num) == Query("from_linear", [num |-> num], from_linear(width, num))

FromLinearInv(num) == Query("from_linear_inv", [num |-> num], from_linear_inv(width, num))

ToLinear(p) == Query("to_linear", [p |-> p], to_linear(width, height, p))

ToLinearInv(p) == Query("to_linear_inv", [p |-> p], to_linear_inv(width, height, p))

----------------------------------------------------------------------------
\* Specification of the projection: a grid panned by set_pos / set_screen_pos
\* and queried in between.

GridInit == GridDefault(MaxWidth, MaxHeight) /\ FinderUnused

GridNext ==
    \/ \E p \in PosValues : set_pos(p)
    \/ \E p \in ScreenValues : set_screen_pos(p)
    \/ \E p \in Tiles(width, height) \cup {pos} : ToScreen(p)
    \/ \E p \in Tiles(width, height), off \in PixelOffsets : FromScreen(p, off)
    \/ \E p \in Tiles(width, height), d \in Direction : GoUnbounded(p, d, 1)

SpecGrid == GridInit /\ [][GridNext]_vars

\* Specification of direction: straight walks of every length from every
\* in-bounds tile, on a grid panned by set_pos (screen_pos cancels out of the
\* difference direction takes).

DirectionNext ==
    \/ \E p \in PosValues : set_pos(p)
    \/ \E p \in InBounds(width, height), d \in Direction, k \in 1..MaxDist :
         DirectionOf(p, d, k)

SpecDirection == GridInit /\ [][DirectionNext]_vars

\* Specification of from_screen over the pixels around the screen origin, on
\* a grid panned by set_pos / set_screen_pos: from_screen of a pixel and of
\* the pixel one screen_offset away from it.

PixelValues == {Point(x, y) : x \in -MaxPixel..MaxPixel, y \in 0..MaxPixel}

FromScreenStep(s, d) ==
    Query("from_screen_step", [s |-> s, direction |-> d],
          [at |-> from_screen(screen_pos, pos, s),
           moved |-> from_screen(screen_pos, pos, PAdd(s, screen_offset(d)))])

PixelNext ==
    \/ \E p \in PosValues : set_pos(p)
    \/ \E p \in ScreenValues : set_screen_pos(p)
    \/ \E s \in PixelValues, d \in Direction : FromScreenStep(s, d)

SpecPixel == GridInit /\ [][PixelNext]_vars

\* Specification of the linear indices, over every grid size.

LinearInit ==
    /\ \E w \in 1..MaxWidth, h \in 1..MaxHeight : GridDefault(w, h)
    /\ FinderUnused

LinearNext ==
    \/ \E num \in 0..(width * height) : FromLinear(num)
    \/ \E num \in 0..(width * height) : FromLinearInv(num)
    \/ \E p \in Tiles(width, height) : ToLinear(p)
    \/ \E p \in Tiles(width, height) : ToLinearInv(p)

SpecLinear == LinearInit /\ [][LinearNext]_vars

----------------------------------------------------------------------------
\* PathFinder.

Blocked == [tag |-> "Blocked", cost |-> 0]

Passable(c) == [tag |-> "Passable", cost |-> c]

\* Option<Vec<Direction>>, with the return statement that produced it; a
\* panic (unwrap of None) is the third outcome of a call.
Some(path) == [tag |-> "Some", path |-> path, at |-> "found"]

None(at) == [tag |-> "None", path |-> <<>>, at |-> at]

Panic(at) == [tag |-> "Panic", path |-> <<>>, at |-> at]

Step(p, came_from, dir, cost, est) ==
    [pos |-> p, came_from |-> came_from, direction |-> dir, cost |-> cost,
     estimate |-> est]

total_cost(step) == step.cost + step.estimate

estimate(sp, gp, from, to) ==
    LET d == PSub(to_screen(sp, gp, to), to_screen(sp, gp, from))
        diff == Point(Abs(d.x), Abs(d.y))
        min == Min(diff.x, diff.y)
    IN diff.x + diff.y - Quot(min, 2)

\* is_closed(pos) unwraps to_linear(pos): callers check HasLinear first.
HasLinear(w, h, p) == to_linear(w, h, p) # <<>>

is_closed(w, h, cl, p) == to_linear(w, h, p)[1] \in cl

close(w, h, cl, p) == cl \cup {to_linear(w, h, p)[1]}

\* steps.iter().enumerate().filter(not closed).min_by(total_cost): the index
\* (0-based) of the first open step of least total cost, or -1 for None.
MinOpen(w, h, st, cl) ==
    LET open == {i \in 1..Len(st) : ~is_closed(w, h, cl, st[i].pos)}
    IN IF open = {} THEN -1
       ELSE (CHOOSE i \in open :
                \A k \in open :
                    \/ total_cost(st[i]) < total_cost(st[k])
                    \/ (total_cost(st[i]) = total_cost(st[k]) /\ i <= k)) - 1

\* Found: the number of came_from hops from idx back to index 0 ...
RECURSIVE PathLen(_, _)
PathLen(st, i) == IF i = 0 THEN 0 ELSE 1 + PathLen(st, st[i + 1].came_from)

\* ... and the directions written from the back of the vector.
RECURSIVE FillPath(_, _, _, _)
FillPath(st, path, i, k) ==
    LET step == st[i + 1]
        filled == [path EXCEPT ![k + 1] = step.direction]
    IN IF step.came_from = 0 THEN filled
       ELSE FillPath(st, filled, step.came_from, k - 1)

\* Reconstruct that leaves the directions in back-walk order, goal first.
Reconstruct_unreversed(st, idx) ==
    LET len == PathLen(st, idx)
        path == [k \in 1..len |-> "NE"]
        filled == IF len > 0 THEN FillPath(st, path, idx, len - 1) ELSE path
    IN [k \in 1..len |-> filled[len + 1 - k]]

Reconstruct(st, idx) ==
    LET len == PathLen(st, idx)
        path == [k \in 1..len |-> "NE"]
    IN IF len > 0 THEN FillPath(st, path, idx, len - 1) ELSE path

\* steps.iter().position(|s| s.pos == next): 0-based, -1 for None.
Position(st, p) ==
    IF \E i \in 1..Len(st) : st[i].pos = p
    THEN (CHOOSE i \in 1..Len(st) : st[i].pos = p /\ \A k \in 1..(i - 1) : st[k].pos # p) - 1
    ELSE -1

\* The cap test one step early, and one step late.
CapReached_early(st, depth) == Len(st) + 1 >= depth

CapReached_late(st, depth) == Len(st) > depth

\* steps.len() >= self.max_depth
CapReached(st, depth) == Len(st) >= depth

\* A rewiring that records the cost and the predecessor of the better route
\* but not its direction.
Rewire_keeps_direction(step, idx, next_direction, next_cost) ==
    IF next_cost < step.cost
    THEN [step EXCEPT !.cost = next_cost, !.came_from = idx]
    ELSE step

\* A better route to a tile already in steps.
Rewire(step, idx, next_direction, next_cost) ==
    IF next_cost < step.cost
    THEN [step EXCEPT !.direction = next_direction, !.cost = next_cost, !.came_from = idx]
    ELSE step

\* The `for next_direction in Direction::iter()` loop over the neighbours of
\* the step at idx, from the n-th direction on.  Gives the steps and whether
\* the loop returned None at the cap.
RECURSIVE Expand(_, _, _, _, _, _, _, _, _, _)
Expand(g, f, smooth, depth, cl, to, st, idx, cur, n) ==
    IF n > 6 THEN [steps |-> st, capped |-> FALSE]
    ELSE
      LET next_direction == DirectionValues[n]
          next == go(g.width, g.height, cur.pos, next_direction, 1)
          skip == Expand(g, f, smooth, depth, cl, to, st, idx, cur, n + 1)
      IN IF next = <<>> THEN skip
         ELSE IF is_closed(g.width, g.height, cl, next[1]) THEN skip
         ELSE IF f[next[1]].tag = "Blocked" THEN skip
         ELSE
           LET base == f[next[1]].cost + cur.cost + 50
               next_cost == IF smooth /\ next_direction # cur.direction
                            THEN base + 10 ELSE base
               neighbor_idx == Position(st, next[1])
           IN IF neighbor_idx >= 0
              THEN Expand(g, f, smooth, depth, cl, to,
                          [st EXCEPT ![neighbor_idx + 1] =
                              Rewire(@, idx, next_direction, next_cost)],
                          idx, cur, n + 1)
              ELSE IF CapReached(st, depth)
                   THEN [steps |-> st, capped |-> TRUE]
                   ELSE Expand(g, f, smooth, depth, cl, to,
                               Append(st, Step(next[1], idx, next_direction, next_cost,
                                               estimate(g.screen_pos, g.pos, next[1], to))),
                               idx, cur, n + 1)

Grid == [screen_pos |-> screen_pos, pos |-> pos, width |-> width, height |-> height]

\* A clear that leaves the closed set of the previous search in place.
clear_kept(cl) == cl

\* self.closed.clear()
clear(cl) == {}

\* find, up to the first iteration of its loop.
FindCall(from, to, smooth) ==
    /\ pc # "loop"
    /\ call' = [from |-> from, to |-> to, smooth |-> smooth]
    /\ IF from = to
       THEN /\ result' = Some(<<>>)
            /\ pc' = "done"
            /\ UNCHANGED <<steps, closed>>
       ELSE IF tile_state[to].tag = "Blocked"
       THEN /\ result' = None("blocked")
            /\ pc' = "done"
            /\ UNCHANGED <<steps, closed>>
       ELSE /\ steps' = <<Step(from, 0, "NE", 0, estimate(screen_pos, pos, from, to))>>
            /\ closed' = clear(closed)
            /\ result' = NoValue
            /\ pc' = "loop"
    /\ UNCHANGED <<gridVars, queryVars, max_depth, tile_state, bey>>

\* One iteration of the loop of find.
FindLoop ==
    /\ pc = "loop"
    /\ IF \E i \in 1..Len(steps) : ~HasLinear(width, height, steps[i].pos)
       THEN \* is_closed unwraps None
            /\ result' = Panic("is_closed")
            /\ pc' = "done"
            /\ UNCHANGED <<steps, closed>>
       ELSE
         LET idx == MinOpen(width, height, steps, closed)
         IN IF idx < 0
            THEN /\ result' = None("exhausted")
                 /\ pc' = "done"
                 /\ UNCHANGED <<steps, closed>>
            ELSE IF steps[idx + 1].pos = call.to
            THEN /\ result' = Some(Reconstruct(steps, idx))
                 /\ pc' = "done"
                 /\ UNCHANGED <<steps, closed>>
            ELSE
              LET cl == close(width, height, closed, steps[idx + 1].pos)
                  e == Expand(Grid, tile_state, call.smooth, max_depth, cl, call.to,
                              steps, idx, steps[idx + 1], 1)
              IN /\ closed' = cl
                 /\ steps' = e.steps
                 /\ IF e.capped
                    THEN result' = None("cap") /\ pc' = "done"
                    ELSE UNCHANGED <<result, pc>>
    /\ UNCHANGED <<gridVars, queryVars, max_depth, tile_state, call, bey>>

----------------------------------------------------------------------------
\* Specification of one find on a freshly built PathFinder, for every
\* tile_state function of the families the tests use, every pair of points and
\* a range of max_depth values.

\* Out-of-bounds points handed to find.
OutPoints == {Point(-1, 0)}

FinderPoints(w, h) == InBounds(w, h) \cup OutPoints

PenaltyCost == 100

\* test::TileStateFunc::Blocked(v): Blocked on v, Passable(0) elsewhere.
BlockedFunc(w, h, v) ==
    [p \in FinderPoints(w, h) |-> IF p \in v THEN Blocked ELSE Passable(0)]

\* test::TileStateFunc::Penalty(vec![(x, y, c)])
PenaltyFunc(w, h, t, c) ==
    [p \in FinderPoints(w, h) |-> IF p = t THEN Passable(c) ELSE Passable(0)]

TileStateFuncs(w, h) ==
    {BlockedFunc(w, h, v) : v \in {u \in SUBSET InBounds(w, h) : Cardinality(u) <= MaxBlocked}}
        \cup {PenaltyFunc(w, h, t, PenaltyCost) : t \in InBounds(w, h)}

Depths(w, h) == {0, 1, MaxDepthSmall, w * h}

\* PathFinder::new(tile_grid, max_depth)
FinderNew(depth) ==
    /\ steps = <<>>
    /\ closed = {}
    /\ max_depth = depth
    /\ pc = "idle"
    /\ call = NoValue
    /\ result = NoValue
    /\ bey = NoValue

FindInit ==
    /\ GridDefault(MaxWidth, MaxHeight)
    /\ \E depth \in Depths(MaxWidth, MaxHeight) : FinderNew(depth)
    /\ tile_state \in TileStateFuncs(MaxWidth, MaxHeight)

FindNext ==
    \/ /\ pc = "idle"
       /\ \E from \in FinderPoints(width, height), to \in FinderPoints(width, height),
             smooth \in BOOLEAN : FindCall(from, to, smooth)
    \/ FindLoop

SpecFind == FindInit /\ [][FindNext]_vars

----------------------------------------------------------------------------
\* Specification of a reused PathFinder: find is called again and again on
\* the same object, each call on the workspace the calls before it left.

\* A call on a used PathFinder.  A call that panicked is not followed by
\* another one.
FindAgain(from, to, smooth) ==
    /\ pc = "done"
    /\ result.tag # "Panic"
    /\ FindCall(from, to, smooth)

ReuseNext ==
    \/ /\ pc = "idle"
       /\ \E from \in FinderPoints(width, height), to \in FinderPoints(width, height),
             smooth \in BOOLEAN : FindCall(from, to, smooth)
    \/ \E from \in FinderPoints(width, height), to \in FinderPoints(width, height),
          smooth \in BOOLEAN : FindAgain(from, to, smooth)
    \/ FindLoop

SpecReuse == FindInit /\ [][ReuseNext]_vars

\* The loop of find run to its return from the workspace (st, cl): the value
\* FindLoop returns when it is iterated from there.
RECURSIVE FindFrom(_, _, _, _)
FindFrom(st, cl, to, smooth) ==
    IF \E i \in 1..Len(st) : ~HasLinear(width, height, st[i].pos)
    THEN Panic("is_closed")
    ELSE LET idx == MinOpen(width, height, st, cl)
         IN IF idx < 0 THEN None("exhausted")
            ELSE IF st[idx + 1].pos = to THEN Some(Reconstruct(st, idx))
            ELSE LET cl1 == close(width, height, cl, st[idx + 1].pos)
                     e == Expand(Grid, tile_state, smooth, max_depth, cl1, to,
                                 st, idx, st[idx + 1], 1)
                 IN IF e.capped THEN None("cap")
                    ELSE FindFrom(e.steps, cl1, to, smooth)

\* find(from, to, smooth, tile_state) on a PathFinder fresh from
\* PathFinder::new(grid, max_depth).
FreshFind(from, to, smooth) ==
    IF from = to THEN Some(<<>>)
    ELSE IF tile_state[to].tag = "Blocked" THEN None("blocked")
    ELSE FindFrom(<<Step(from, 0, "NE", 0, estimate(screen_pos, pos, from, to))>>,
                  {}, to, smooth)

----------------------------------------------------------------------------
\* Specification of one find with smooth = false on a PathFinder whose grid
\* was moved with set_pos before it was handed to PathFinder::new, over
\* tile_state functions with one tile of a small, middle or large cost.

\* TileGrid { width, height, ..Default::default() } after set_pos(p)
GridAt(p, w, h) ==
    /\ screen_pos = Point(0, 0)
    /\ pos = p
    /\ width = w
    /\ height = h
    /\ op = "set_pos"
    /\ arg = [p |-> p]
    /\ ret = NoValue

\* Costs of the one tile that is not free.
CostValues == {1, 30, PenaltyCost}

CostFuncs(w, h) ==
    {PenaltyFunc(w, h, t, c) : t \in InBounds(w, h), c \in CostValues}

MovedInit ==
    /\ \E p \in PosValues : GridAt(p, MaxWidth, MaxHeight)
    /\ \E depth \in Depths(MaxWidth, MaxHeight) : FinderNew(depth)
    /\ tile_state \in TileStateFuncs(MaxWidth, MaxHeight) \cup CostFuncs(MaxWidth, MaxHeight)

MovedNext ==
    \/ /\ pc = "idle"
       /\ \E from \in FinderPoints(width, height), to \in FinderPoints(width, height) :
             FindCall(from, to, FALSE)
    \/ FindLoop

SpecMoved == MovedInit /\ [][MovedNext]_vars

----------------------------------------------------------------------------
\* TileGrid::beyond, one loop iteration per step.

Tile(p) == [tag |-> "Tile", tile |-> p]

\* beyond up to the first iteration of one of its two loops.
BeyondCall(from, to, distance) ==
    /\ pc \notin {"loop", "beyond"}
    /\ call' = [from |-> from, to |-> to, distance |-> distance]
    /\ IF distance < 0
       THEN \* assert!(distance >= 0)
            /\ result' = Panic("assert")
            /\ pc' = "done"
            /\ bey' = NoValue
       ELSE IF distance = 0
       THEN /\ result' = Tile(from)
            /\ pc' = "done"
            /\ bey' = NoValue
       ELSE
         LET froms == PAdd(to_screen(screen_pos, pos, from), Point(16, 18))
             tos == PAdd(to_screen(screen_pos, pos, to), Point(16, 18))
             delta_x == tos.x - froms.x
             abs_delta_x_mult_2 == 2 * Abs(delta_x)
             delta_y == tos.y - froms.y
             abs_delta_y_mult_2 == 2 * Abs(delta_y)
             x_dominant == abs_delta_x_mult_2 > abs_delta_y_mult_2
         IN /\ bey' = [abs_delta_x_mult_2 |-> abs_delta_x_mult_2,
                       x_inc |-> Signum(delta_x),
                       abs_delta_y_mult_2 |-> abs_delta_y_mult_2,
                       y_inc |-> Signum(delta_y),
                       cur |-> from,
                       curs |-> froms,
                       cur_distance |-> 0,
                       x_dominant |-> x_dominant,
                       j |-> IF x_dominant
                             THEN abs_delta_y_mult_2 - Quot(abs_delta_x_mult_2, 2)
                             ELSE abs_delta_x_mult_2 - Quot(abs_delta_y_mult_2, 2)]
            /\ result' = NoValue
            /\ pc' = "beyond"
    /\ UNCHANGED <<gridVars, queryVars, finderVars>>

\* The cursor and error term after one iteration of the x-dominant loop
\* (lines 305-310) or of the y-dominant loop (lines 324-329).
BeyondAdvance(b) ==
    IF b.x_dominant
    THEN LET y1 == IF b.j >= 0 THEN b.curs.y + b.y_inc ELSE b.curs.y
             j1 == IF b.j >= 0 THEN b.j - b.abs_delta_x_mult_2 ELSE b.j
         IN [b EXCEPT !.j = j1 + b.abs_delta_y_mult_2,
                      !.curs = Point(b.curs.x, y1 + b.x_inc)]
    ELSE LET x1 == IF b.j >= 0 THEN b.curs.x + b.x_inc ELSE b.curs.x
             j1 == IF b.j >= 0 THEN b.j - b.abs_delta_y_mult_2 ELSE b.j
         IN [b EXCEPT !.j = j1 + b.abs_delta_x_mult_2,
                      !.curs = Point(x1, b.curs.y + b.y_inc)]

\* One iteration of the running loop of beyond.
BeyondLoop ==
    /\ pc = "beyond"
    /\ LET next == from_screen(screen_pos, pos, bey.curs)
       IN IF next # bey.cur
          THEN LET cur_distance == bey.cur_distance + 1
               IN IF cur_distance = call.distance \/ ~is_in_bounds(width, height, next)
                  THEN /\ result' = Tile(bey.cur)
                       /\ pc' = "done"
                       /\ bey' = [bey EXCEPT !.cur_distance = cur_distance]
                  ELSE /\ bey' = BeyondAdvance([bey EXCEPT !.cur_distance = cur_distance,
                                                          !.cur = next])
                       /\ UNCHANGED <<result, pc>>
          ELSE /\ bey' = BeyondAdvance(bey)
               /\ UNCHANGED <<result, pc>>
    /\ UNCHANGED <<gridVars, queryVars, finderVars, call>>

\* Specification of one beyond call on the default grid, for every pair of
\* tiles of the grid and of the ring around it.

BeyondInit == GridDefault(MaxWidth, MaxHeight) /\ FinderUnused

BeyondNext ==
    \/ /\ pc = "idle"
       /\ \E from \in Tiles(width, height), to \in Tiles(width, height),
             distance \in -1..MaxBeyond : BeyondCall(from, to, distance)
    \/ BeyondLoop

SpecBeyond == BeyondInit /\ [][BeyondNext]_vars

\* The loop of a running call is not left waiting: a call that can take
\* another iteration takes it.
FairBeyond == SpecBeyond /\ WF_vars(BeyondLoop)

----------------------------------------------------------------------------
\* Properties of the projection (SpecGrid) and of the linear indices
\* (SpecLinear).

EvenPos == pos.x % 2 = 0

\* C2 (as stated): for every grid configuration and every in-bounds tile p,
\* from_screen(to_screen(p)) = p.
C2_RoundTrip ==
    (op = "from_screen" /\ arg.off = Point(0, 0) /\ is_in_bounds(width, height, arg.tile))
        => ret = arg.tile

\* C2 (amended): for every grid configuration and every in-bounds tile p,
\* from_screen(to_screen(p)) is never p: the pixel to_screen(p) is the corner
\* of p's bounding box and lies one row up, at y = p.y - 1; its x is p.x when
\* pos.x is even and p.x - 1 or p.x + 1 when pos.x is odd.  With pos.x even the
\* top vertex of the hexagon maps back: from_screen(to_screen(p) + (16, 0)) = p.
C2_RoundTripAmended ==
    (op = "from_screen" /\ is_in_bounds(width, height, arg.tile)) =>
        /\ arg.off = Point(0, 0) =>
            /\ ret # arg.tile
            /\ ret.y = arg.tile.y - 1
            /\ IF EvenPos THEN ret.x = arg.tile.x ELSE Abs(ret.x - arg.tile.x) = 1
        /\ (arg.off = Point(16, 0) /\ EvenPos) => ret = arg.tile

\* A panned grid (pos and screen_pos both moved) was asked for the tile under
\* the pixel where an in-bounds tile is drawn, and answered the tile above it.
C2_Witness ==
    /\ op = "from_screen"
    /\ arg.off = Point(0, 0)
    /\ is_in_bounds(width, height, arg.tile)
    /\ pos = Point(0, MaxPos)
    /\ screen_pos = Point(-MaxScreen, MaxScreen)
    /\ ret = Point(arg.tile.x, arg.tile.y - 1)

\* C3: for every grid configuration, tile p and direction d, one neighbour step
\* moves the screen position by screen_offset(d).
C3_StepMovesByScreenOffset ==
    (op = "go_unbounded" /\ arg.distance = 1) =>
        PSub(to_screen(screen_pos, pos, ret), to_screen(screen_pos, pos, arg.p))
            = screen_offset(arg.direction)

\* C4: after any sequence of set_pos and set_screen_pos calls,
\* to_screen(pos()) = screen_pos().
C4_PosMapsToScreenPos ==
    (op = "to_screen" /\ arg.p = pos) => ret = screen_pos

\* C9: for every tile p, direction d and k in 1..10,
\* direction(p, go_unbounded(p, d, k)) = d.
C9_DirectionOfStraightWalk ==
    (op = "direction" /\ arg.k <= 10) => ret = arg.d

\* With pos.x even the three statements above hold; they fail only on grids
\* whose pos.x is odd.
EvenPosProjectionLemma ==
    EvenPos => (C3_StepMovesByScreenOffset /\ C4_PosMapsToScreenPos)

EvenPosDirectionLemma == EvenPos => C9_DirectionOfStraightWalk

\* C8: for every W >= 1, H >= 1 and 0 <= n < W*H, from_linear(n) and
\* from_linear_inv(n) are in bounds and to_linear / to_linear_inv give back
\* Some(n); for every in-bounds p, from_linear(to_linear(p)) = p and
\* from_linear_inv(to_linear_inv(p)) = p.
C8_LinearRoundTrip ==
    /\ (op = "from_linear" /\ arg.num < width * height) =>
         /\ is_in_bounds(width, height, ret)
         /\ to_linear(width, height, ret) = <<arg.num>>
    /\ (op = "from_linear_inv" /\ arg.num < width * height) =>
         /\ is_in_bounds(width, height, ret)
         /\ to_linear_inv(width, height, ret) = <<arg.num>>
    /\ (op = "to_linear" /\ is_in_bounds(width, height, arg.p)) =>
         /\ Len(ret) = 1
         /\ from_linear(width, ret[1]) = arg.p
    /\ (op = "to_linear_inv" /\ is_in_bounds(width, height, arg.p)) =>
         /\ Len(ret) = 1
         /\ from_linear_inv(width, ret[1]) = arg.p

\* The last index of a grid with several rows and columns was converted with
\* the mirrored mapping and landed in the bottom-left tile.
C8_Witness ==
    /\ op = "from_linear_inv"
    /\ width = MaxWidth
    /\ height = MaxHeight
    /\ arg.num = width * height - 1
    /\ ret = Point(0, height - 1)

----------------------------------------------------------------------------
\* Properties of find (SpecFind).

\* The tile reached by replaying a path one direction at a time.
RECURSIVE Replay(_, _)
Replay(p, path) ==
    IF path = <<>> THEN p
    ELSE Replay(go_unbounded(p, Head(path), 1), Tail(path))

\* The tiles entered while replaying: after 1, 2, ... Len(path) directions.
Entered(p, path) == {Replay(p, SubSeq(path, 1, n)) : n \in 1..Len(path)}

\* The tiles a walk over in-bounds Passable tiles can reach from the tiles of
\* S, whose last additions are `frontier`.
RECURSIVE Reachable(_, _)
Reachable(S, frontier) ==
    LET more == {q \in {go_unbounded(p, d, 1) : p \in frontier, d \in Direction} \ S :
                    /\ is_in_bounds(width, height, q)
                    /\ tile_state[q].tag = "Passable"}
    IN IF more = {} THEN S ELSE Reachable(S \cup more, more)

ReachableFrom(p) == Reachable({p}, {p})

Returned == pc = "done"

\* C1: whenever find returns Some(path), replaying path from `from` with
\* go_unbounded ends at `to`, and every tile entered on the way is in bounds
\* and not Blocked.
C1_PathIsValid ==
    (Returned /\ result.tag = "Some") =>
        /\ Replay(call.from, result.path) = call.to
        /\ \A t \in Entered(call.from, result.path) :
              /\ is_in_bounds(width, height, t)
              /\ tile_state[t].tag # "Blocked"

\* find returned a path of three or more directions around a Blocked tile.
C1_Witness ==
    /\ Returned
    /\ result.tag = "Some"
    /\ Len(result.path) >= 3
    /\ \E t \in InBounds(width, height) : tile_state[t].tag = "Blocked"

\* C5: for in-bounds from # to, if `to` is Passable, a chain of neighbouring
\* in-bounds Passable tiles leads from `from` to `to`, and
\* max_depth >= width * height, then find returns Some(path), smooth or not.
C5_FindsExistingPath ==
    (/\ Returned
     /\ call.from # call.to
     /\ is_in_bounds(width, height, call.from)
     /\ is_in_bounds(width, height, call.to)
     /\ max_depth >= width * height
     /\ tile_state[call.to].tag = "Passable"
     /\ call.to \in ReachableFrom(call.from))
        => result.tag = "Some"

\* With max_depth = width * height, find reached a tile that is not a
\* neighbour of the start, with every tile of the grid in its workspace.
C5_Witness ==
    /\ Returned
    /\ max_depth = width * height
    /\ result.tag = "Some"
    /\ Len(result.path) >= 2
    /\ Len(steps) = width * height
    /\ call.smooth

\* C6: find never fails: for every from and to, in bounds or not, it returns
\* Some(path) or None.
C6_FindNeverFails ==
    Returned => result.tag \in {"Some", "None"}

\* C7 (as stated): for any max_depth = D >= 0, when find returns None because
\* the step cap stopped the search, the workspace holds exactly D steps.
C7_CapLeavesDepthSteps ==
    (Returned /\ result.tag = "None" /\ result.at = "cap") => Len(steps) = max_depth

\* C7 (amended): when find returns None because the step cap stopped the
\* search, the workspace holds exactly D steps for D >= 1, and exactly one
\* step, the start, for D = 0.
C7_CapLeavesDepthStepsAmended ==
    (Returned /\ result.tag = "None" /\ result.at = "cap") =>
        Len(steps) = (IF max_depth >= 1 THEN max_depth ELSE 1)

\* The cap stopped a search that had filled a workspace of two or more steps.
C7_Witness ==
    /\ Returned
    /\ result.tag = "None"
    /\ result.at = "cap"
    /\ max_depth >= 2
    /\ Len(steps) = max_depth

----------------------------------------------------------------------------
\* Properties of beyond (SpecBeyond, FairBeyond).

\* An iteration of the running loop that neither returns nor changes a local:
\* the loop is deterministic, so it repeats this iteration forever.
BeyondSpins ==
    /\ pc = "beyond"
    /\ from_screen(screen_pos, pos, bey.curs) = bey.cur
    /\ BeyondAdvance(bey) = bey

\* C10: beyond(from, to, distance) terminates and returns a tile for every
\* pair of tiles, equal or different, and every distance >= 0: a call that
\* has returned with distance >= 0 returned a tile, and a running call is
\* never at an iteration that repeats forever.
C10_BeyondTerminates ==
    /\ (pc = "done" /\ call.distance >= 0) => result.tag = "Tile"
    /\ ~BeyondSpins

\* The same as a temporal property of FairBeyond.
BeyondEventuallyReturns ==
    (pc = "beyond") ~> (pc = "done" /\ result.tag = "Tile")

\* The calls that do terminate: from # to.
BeyondTerminatesLemma ==
    (pc = "beyond" /\ call.from # call.to) ~> (pc = "done" /\ result.tag = "Tile")

\* The straight walk of k steps from p in direction d stays on the grid.
StraightWalkInBounds(p, d, k) ==
    \A m \in 0..k : is_in_bounds(width, height, go_unbounded(p, d, m))

\* C11: when to = go_unbounded(from, d, k) for one direction d with
\* k >= distance >= 1 and every tile of that walk in bounds, the tile
\* beyond(from, to, distance) returns is go_unbounded(from, d, m) for some m
\* with 0 <= m <= distance.
C11_BeyondOnStraightWalk ==
    (pc = "done" /\ call.distance >= 1) =>
        \A d \in Direction, k \in call.distance..(width + height) :
            (/\ StraightWalkInBounds(call.from, d, k)
             /\ call.to = go_unbounded(call.from, d, k))
            => /\ result.tag = "Tile"
               /\ \E m \in 0..call.distance :
                     result.tile = go_unbounded(call.from, d, m)

\* With distance = 1 the first sampled tile already differs from `from`
\* and the call returns `from`.
BeyondDistanceOneLemma ==
    (pc = "done" /\ call.distance = 1) => result = Tile(call.from)

----------------------------------------------------------------------------
\* Properties of a reused PathFinder (SpecReuse).

\* C12: after any sequence of earlier find calls (successful, failed,
\* cap-limited or returning early) find(from, to, smooth, f) returns what the
\* same call returns on a freshly constructed PathFinder with the same grid
\* and max_depth.
C12_ReuseEqualsFresh ==
    pc = "done" => result = FreshFind(call.from, call.to, call.smooth)

\* A call has returned early on a workspace that an earlier search left
\* with steps and closed tiles in it.
C12_Witness ==
    /\ pc = "done"
    /\ call.from = call.to
    /\ result = Some(<<>>)
    /\ Len(steps) >= 2
    /\ closed # {}

\* Every search starts from the start step alone and an all-clear closed set.
SearchStartsClearLemma ==
    (pc = "loop" /\ closed = {}) =>
        /\ Len(steps) = 1
        /\ steps[1].pos = call.from
        /\ steps[1].came_from = 0
        /\ steps[1].cost = 0

----------------------------------------------------------------------------
\* Properties of the predecessor arena (SpecFind).

\* Following came_from from the step at index i reaches index 0 without
\* leaving the arena and without visiting a step twice.
RECURSIVE BackWalk(_, _, _)
BackWalk(st, i, seen) ==
    IF i = 0 THEN TRUE
    ELSE IF i \in seen \/ i >= Len(st) THEN FALSE
    ELSE BackWalk(st, st[i + 1].came_from, seen \cup {i})

\* The step at index i > 0 is one neighbour move, in its direction, from the
\* tile of its came_from step.
OneMoveFromPredecessor(st, i) ==
    /\ st[i + 1].came_from \in 0..(Len(st) - 1)
    /\ st[i + 1].pos =
           go_unbounded(st[st[i + 1].came_from + 1].pos, st[i + 1].direction, 1)

\* The start step as find pushes it.
StartStep == Step(call.from, 0, "NE", 0, estimate(screen_pos, pos, call.from, call.to))

\* C13: in every state reached during find, following came_from from any
\* step reaches index 0 in finitely many hops without visiting a step twice,
\* the direction of every step but the start is the direction of the single
\* neighbour move from its came_from step's tile to its own tile, and
\* index 0 (the start) is never rewired.
C13_ArenaIsTree ==
    steps # <<>> =>
        /\ steps[1] = StartStep
        /\ \A i \in 0..(Len(steps) - 1) : BackWalk(steps, i, {})
        /\ \A i \in 1..(Len(steps) - 1) : OneMoveFromPredecessor(steps, i)

\* The iteration of the loop that starts in this state overwrites a step
\* already in the arena with a better route.
RewiresNext ==
    /\ pc = "loop"
    /\ \A i \in 1..Len(steps) : HasLinear(width, height, steps[i].pos)
    /\ LET idx == MinOpen(width, height, steps, closed)
       IN /\ idx >= 0
          /\ steps[idx + 1].pos # call.to
          /\ LET e == Expand(Grid, tile_state, call.smooth, max_depth,
                             close(width, height, closed, steps[idx + 1].pos),
                             call.to, steps, idx, steps[idx + 1], 1)
             IN \E j \in 1..Len(steps) : e.steps[j] # steps[j]

\* The search is at an arena with a step two hops from the start, and its
\* next iteration rewires a step.
C13_Witness ==
    /\ RewiresNext
    /\ \E i \in 1..(Len(steps) - 1) : steps[i + 1].came_from > 0

----------------------------------------------------------------------------
\* Cost of the returned path (SpecMoved).

\* Cost of a path replayed from p: for each tile entered, its Passable cost
\* + 50.
RECURSIVE WalkCost(_, _)
WalkCost(p, path) ==
    IF path = <<>> THEN 0
    ELSE LET q == go_unbounded(p, Head(path), 1)
         IN tile_state[q].cost + 50 + WalkCost(q, Tail(path))

\* One more neighbour move onto an in-bounds tile that is not Blocked, from
\* every <<tile, cost>> of S.
Moves(S) ==
    {<<go_unbounded(e[1], d, 1),
       e[2] + tile_state[go_unbounded(e[1], d, 1)].cost + 50>> :
        <<e, d>> \in {x \in S \X Direction :
                        /\ is_in_bounds(width, height, go_unbounded(x[1][1], x[2], 1))
                        /\ tile_state[go_unbounded(x[1][1], x[2], 1)].tag = "Passable"}}

\* The cheapest <<tile, cost>> of S for every tile in it.
Cheapest(S) == {e \in S : \A e2 \in S : e2[1] = e[1] => e[2] <= e2[2]}

\* The cheapest way to every tile that walks of at most n more moves reach.
RECURSIVE Walks(_, _)
Walks(S, n) == IF n = 0 THEN S ELSE Walks(Cheapest(S \cup Moves(S)), n - 1)

\* The least cost of a walk from `from` to `to` (a tile that a walk reaches)
\* over in-bounds tiles that are not Blocked.
MinCost(from, to) ==
    LET S == Walks({<<from, 0>>}, width * height)
    IN (CHOOSE e \in S : e[1] = to)[2]

\* C14: with smooth = false, whenever find(from, to, false, f) returns
\* Some(path), the cost of the path (for each tile entered, its Passable cost
\* + 50) is the least cost of any walk from `from` to `to` over in-bounds
\* tiles that are not Blocked.
C14_PathCostMinimal ==
    (Returned /\ ~call.smooth /\ result.tag = "Some" /\ result.path # <<>>) =>
        WalkCost(call.from, result.path) = MinCost(call.from, call.to)

\* On the grids whose pos.x is even the returned path is a cheapest one.
EvenPosCheapestLemma == EvenPos => C14_PathCostMinimal

----------------------------------------------------------------------------
\* from_screen and neighbour stepping (SpecPixel).

\* C15: for every pixel s (pixels of tiles with negative or out-of-bounds
\* coordinates included), every grid pos and screen_pos and every direction
\* d, from_screen(s + screen_offset(d)) = go_unbounded(from_screen(s), d, 1).
C15_FromScreenCommutesWithStep ==
    op = "from_screen_step" =>
        ret.moved = go_unbounded(ret.at, arg.direction, 1)

\* from_screen commutes with the step when pos.x is even and neither pixel
\* lies in a column of negative x.
NonNegativeColumnsLemma ==
    (op = "from_screen_step" /\ EvenPos /\ ret.at.x >= 0 /\ ret.moved.x >= 0) =>
        ret.moved = go_unbounded(ret.at, arg.direction, 1)

\* The same on the grids whose pos.x is even, negative columns included:
\* fails in the columns of negative odd x, where `tile_x % 2 == 1` is false.
EvenPosStepProbe == EvenPos => C15_FromScreenCommutesWithStep

\* The same off the negative columns, on every grid: fails when pos.x is odd.
NonNegativeStepProbe ==
    (op = "from_screen_step" /\ ret.at.x >= 0 /\ ret.moved.x >= 0) =>
        ret.moved = go_unbounded(ret.at, arg.direction, 1)

====
